---- MODULE Spec2Model ----
(***************************************************************************)
(* Mailbox synchronisation of imap-login: fetchUserEmails (email service)  *)
(* composes refreshAccessToken (auth service), fetchEmails (IMAP reader)   *)
(* and saveEmailsToDatabase (cache merge).  Every request is one async     *)
(* function; an action of the model is the code that runs between two      *)
(* awaits of one request.  The User and Email tables and the shared        *)
(* oauth2Client are the only state that requests share.                    *)
(***************************************************************************)
EXTENDS Integers, Sequences, FiniteSets, TLC

\* ------------------------------------------------------------------ bounds
\* Number of sync requests (calls of fetchUserEmails) of one behaviour.
NSyncs == 2
\* Largest IMAP uid of a mailbox; a mailbox holds at most MaxUid messages.
MaxUid == 2
\* Number of OAuth callbacks (calls of handleOAuthCallback) of one behaviour.
NCallbacks == 2
\* Largest page a query for stored emails asks for.
MaxPage == 3
\* Longest address and longest access token given to buildXOAuth2Token.
MaxLen == 2
\* Number of requests the dashboard sends between two loads of the page.
MaxRequests == 3

\* ------------------------------------------------------- program constants
\* fetchEmails(accessToken, emailAddress, limit = 50)
DefaultLimit == 50
\* parsed.text.substring(0, 5000), htmlToText(parsed.html).substring(0, 5000)
MaxBody == 5000
\* parsed.html.substring(0, 10000)
MaxBodyHtml == 10000
\* getStoredEmails: limit = 20
DefaultPageLimit == 20
\* emailQuerySchema: limit: Joi.number().integer().min(1).max(100)
MaxPageLimit == 100

Syncs == 1..NSyncs
Callbacks == 1..NCallbacks
Uids == 1..MaxUid

\* Falsy token value of JavaScript (null, undefined, "").
NoToken == ""
Addresses == {"a@x.com", "b@x.com"}
AccessTokens == {"at1", "at2"}
RefreshTokens == {"rt1"}

\* The primary key Sequelize gives to the account of an address.
IdOf(email) == IF email = "a@x.com" THEN 1 ELSE 2

\* Result null of User.findOne.
NoUser == [id |-> 0, email |-> "", accessToken |-> NoToken, refreshToken |-> NoToken]

\* Rows the users table may hold for one address: email is unique, the
\* access token is set, the refresh token may be absent.
UserRowsOf(email) ==
  { [id |-> IdOf(email), email |-> email, accessToken |-> "at1", refreshToken |-> rt] :
      rt \in RefreshTokens \cup {NoToken} }

\* ---------------------------------------------------------------- messages
\* What can go wrong while one message is processed (part_005:275-335):
\* "bodyParse" is simpleParser rejecting (inner try, 301-324), "process" is
\* an exception in the rest of the callback (outer try, 276-334) that leaves
\* message.attributes readable, as imap-simple always sets it.
Faults == {"none", "bodyParse", "process"}

\* A message as connection.search returns it: its uid and, standing for its
\* parts, the fault its processing meets.
Messages == [uid : Uids, fault : Faults]

\* The results connection.search may give: uids are unique in a mailbox and
\* ascend with the sequence numbers the server answers in.
ServerLists ==
  { m \in UNION { [1..n -> Messages] : n \in 0..MaxUid } :
      \A i, j \in DOMAIN m : i < j => m[i].uid < m[j].uid }

\* The value null a message's callback returns from its outer catch.
Null == [messageId |-> 0, from |-> "", subject |-> "", date |-> "", body |-> "",
         bodyHtml |-> "", hasAttachments |-> FALSE]

\* ------------------------------------------------------------------- state
VARIABLES
  User,          \* the users table: set of rows [id, email, accessToken, refreshToken]
  Email,         \* the emails table: set of rows, each with its primary key id
  oauth2Client,  \* credentials set on the shared OAuth2 client
  sync,          \* the requests: sync[s] holds the locals of one fetchUserEmails call
  response,      \* response[s]: what the fetch endpoint answered request s with
  callback,      \* callback[c]: the locals of one handleOAuthCallback call
  reader,        \* the locals of a call of fetchEmails made with a limit of its own
  storedCall,    \* the locals of a call of getStoredEmails
  dashboard      \* the state of the Dashboard component and its requests in flight

vars == <<User, Email, oauth2Client, sync, response, callback, reader, storedCall, dashboard>>

\* The locals of a call of fetchUserEmails that has not started, with the
\* counts of the calls it has made to its collaborators.
IdleSync ==
  [ pc |-> "idle", emailAddress |-> "", user |-> NoUser, freshAccessToken |-> NoToken,
    connection |-> "none", messages |-> <<>>, emails |-> <<>>, i |-> 0,
    savedCount |-> 0, skippedCount |-> 0, error |-> <<>>, result |-> <<>>,
    setCredentialsCalls |-> 0, getAccessTokenCalls |-> 0, userUpdateCalls |-> 0,
    connectCalls |-> 0, saveError |-> FALSE, refreshCalls |-> 0, cause |-> <<>> ]

\* No answer sent yet.
NoResponse == [status |-> 0, message |-> "", error |-> <<>>, count |-> 0, nodeEnv |-> ""]

\* tokens of a callback that has none yet.
NoTokens == [access_token |-> NoToken, refresh_token |-> NoToken, email |-> ""]

\* The locals of a call of handleOAuthCallback that has not started.
IdleCallback ==
  [pc |-> "idle", code |-> "", tokens |-> NoTokens, error |-> <<>>,
   url |-> <<>>, getTokenCalls |-> 0]

\* The locals of a call of fetchEmails that has not started.
IdleReader ==
  [pc |-> "idle", limit |-> 0, found |-> 0, messages |-> <<>>, emails |-> <<>>,
   user |-> <<>>, xoauth2 |-> <<>>]

\* pagination of a result that is not there yet.
NoPagination ==
  [currentPage |-> 0, totalPages |-> 0, totalCount |-> 0, limit |-> 0,
   hasNextPage |-> FALSE, hasPrevPage |-> FALSE]

\* The locals of a call of getStoredEmails that has not started.
IdleStored ==
  [pc |-> "idle", emailAddress |-> "", page |-> 0, limit |-> 0, search |-> "",
   user |-> NoUser, totalCount |-> 0, emails |-> <<>>, pagination |-> NoPagination,
   error |-> <<>>]

\* A Dashboard that is not mounted.
NoDashboard ==
  [loading |-> FALSE, error |-> FALSE, searchQuery |-> "", currentPage |-> 0,
   shown |-> <<>>, timer |-> <<>>, inflight |-> {}, issued |-> 0,
   initialLoadDone |-> FALSE, rejected |-> {}]

\* Nothing answered, no callback, reader or query running, no Dashboard.
Quiet ==
  /\ response = [s \in Syncs |-> NoResponse]
  /\ callback = [c \in Callbacks |-> IdleCallback]
  /\ reader = IdleReader
  /\ storedCall = IdleStored
  /\ dashboard = NoDashboard

Init ==
  /\ Quiet
  /\ User \in { t \in SUBSET (UNION { UserRowsOf(a) : a \in Addresses }) :
                  \A u, v \in t : u.email = v.email => u = v }
  /\ Email = {}
  /\ oauth2Client = [access_token |-> NoToken, refresh_token |-> NoToken]
  /\ sync = [s \in Syncs |-> IdleSync]

\* The service over a database without accounts.
InitFresh ==
  /\ Quiet
  /\ User = {}
  /\ Email = {}
  /\ oauth2Client = [access_token |-> NoToken, refresh_token |-> NoToken]
  /\ sync = [s \in Syncs |-> IdleSync]

\* ------------------------------------------------------------ error values
\* An error message is the sequence of the fragments it is concatenated of.
UserNotFound == <<"User not found">>
AddressRequired == <<"Email address is required">>
ReauthRequired == <<"No refresh token available; ", "re-authentication", " required">>
UnableToObtain == <<"Unable to obtain access token">>
ProviderErrors == {<<"invalid_grant">>, <<"invalid_client">>}
DatabaseErrors == {<<"SequelizeDatabaseError">>}
\* What imap-simple rejects with: the refusal of the XOAUTH2 login by the
\* server, and the connection timeout of the transport.
MailAuthRejected == <<"Invalid credentials (Failure)">>
MailTimedOut == <<"Timed out while connecting to server">>
ImapErrors == {MailAuthRejected, MailTimedOut}

\* Mutant: the catch of refreshAccessToken drops the message it caught.
RefreshCatch_Generic(error) == <<"Failed to refresh access token">>

\* catch of refreshAccessToken: throw new Error(`Failed to refresh access token: ...`)
RefreshCatch(error) == <<"Failed to refresh access token: ">> \o error

\* catch of fetchUserEmails: throw new Error(`Failed to fetch emails: ...`)
FetchUserEmailsCatch(error) == <<"Failed to fetch emails: ">> \o error

Throw(r, error) == [r EXCEPT !.pc = "failed", !.error = error]

\* A step of a call of fetchUserEmails changes its locals; it answers no
\* request and is no part of an OAuth callback or of another call.
Set(s, r) ==
  /\ sync' = [sync EXCEPT ![s] = r]
  /\ UNCHANGED <<response, callback, reader, storedCall, dashboard>>

\* ------------------------------------------------------- refreshAccessToken
\* Mutant: the guard on the refresh token is missing.
NoRefreshToken_Missing(user) == FALSE

\* if (!user.refreshToken)
NoRefreshToken(user) == user.refreshToken = NoToken

\* Mutant: the token is persisted whether it changed or not.
TokenChanged_Always(freshAccessToken, user) == TRUE

\* Mutant: the token is never persisted.
TokenChanged_Never(freshAccessToken, user) == FALSE

\* if (freshAccessToken !== user.accessToken)
TokenChanged(freshAccessToken, user) == freshAccessToken # user.accessToken

\* Mutant: the test for a missing account is left out.
UserMissing_Unchecked(user) == FALSE

\* if (!user)
UserMissing(user) == user = NoUser

\* ---------------------------------------------------------- fetchUserEmails
\* A request arrives: fetchUserEmails(emailAddress) runs up to its first
\* await, User.findOne.
FetchUserEmails(s, emailAddress) ==
  /\ sync[s].pc = "idle"
  /\ IF emailAddress = ""
       THEN Set(s, Throw(sync[s], AddressRequired))
       ELSE Set(s, [sync[s] EXCEPT !.pc = "findOne", !.emailAddress = emailAddress])
  /\ UNCHANGED <<User, Email, oauth2Client>>

\* User.findOne answers.  Without an account the call throws outside its try;
\* with one, refreshAccessToken(user) runs up to its await of getAccessToken,
\* and throws before it when the account has no refresh token.
FindOneDone(s) ==
  LET r == sync[s]
      found == { u \in User : u.email = r.emailAddress }
      user == IF found = {} THEN NoUser ELSE CHOOSE u \in found : TRUE
  IN /\ r.pc = "findOne"
     /\ IF UserMissing(user)
          THEN /\ Set(s, Throw(r, UserNotFound))
               /\ UNCHANGED oauth2Client
          ELSE IF NoRefreshToken(user)
            THEN /\ Set(s, Throw([r EXCEPT !.user = user, !.refreshCalls = @ + 1],
                                  FetchUserEmailsCatch(ReauthRequired)))
                 /\ UNCHANGED oauth2Client
            ELSE /\ oauth2Client' = [access_token |-> user.accessToken,
                                     refresh_token |-> user.refreshToken]
                 /\ Set(s, [r EXCEPT !.user = user, !.pc = "getAccessToken",
                                     !.refreshCalls = @ + 1,
                                     !.setCredentialsCalls = @ + 1,
                                     !.getAccessTokenCalls = @ + 1])
     /\ UNCHANGED <<User, Email>>

\* User.findOne rejects: the error leaves fetchUserEmails unwrapped.
FindOneFail(s, error) ==
  /\ sync[s].pc = "findOne"
  /\ Set(s, Throw(sync[s], error))
  /\ UNCHANGED <<User, Email, oauth2Client>>

\* fetchEmails(freshAccessToken, emailAddress) up to its await of imaps.connect.
FetchEmailsCall(r, freshAccessToken) ==
  [r EXCEPT !.pc = "connect", !.freshAccessToken = freshAccessToken,
            !.connectCalls = @ + 1]

\* Mutant: the failure is logged and the sync goes on with the token it has.
RefreshFailed_GoesOn(r, error) == FetchEmailsCall(r, r.freshAccessToken)

\* catch of refreshAccessToken (112-115): whatever the try threw is thrown
\* again under the prefix of refreshAccessToken, nothing is tried again, and
\* the error then passes the catch of fetchUserEmails.  cause keeps the error
\* that was caught.
RefreshFailed(r, error) ==
  Throw([r EXCEPT !.cause = error], FetchUserEmailsCatch(RefreshCatch(error)))

\* Mutant: a rejected getAccessToken is called once more.
GetAccessTokenRejected_Retries(r, error) ==
  IF r.getAccessTokenCalls < 2
    THEN [r EXCEPT !.getAccessTokenCalls = @ + 1]
    ELSE RefreshFailed(r, error)

\* await oauth2Client.getAccessToken() rejects inside the try (92-95).
GetAccessTokenRejected(r, error) == RefreshFailed(r, error)

\* oauth2Client.getAccessToken answers with a token, or with nothing.
GetAccessTokenDone(s, token) ==
  LET r == sync[s]
  IN /\ r.pc = "getAccessToken"
     /\ IF token = NoToken
          THEN Set(s, RefreshFailed(r, UnableToObtain))
          ELSE IF TokenChanged(token, r.user)
            THEN Set(s, [r EXCEPT !.pc = "userUpdate", !.freshAccessToken = token,
                                  !.userUpdateCalls = @ + 1])
            ELSE Set(s, FetchEmailsCall(r, token))
     /\ UNCHANGED <<User, Email, oauth2Client>>

\* oauth2Client.getAccessToken rejects.
GetAccessTokenFail(s, error) ==
  /\ sync[s].pc = "getAccessToken"
  /\ Set(s, GetAccessTokenRejected(sync[s], error))
  /\ UNCHANGED <<User, Email, oauth2Client>>

\* user.update({ accessToken }) is done: the row of the account's id holds the
\* new token, and refreshAccessToken returns it.
UserUpdateDone(s) ==
  LET r == sync[s]
      user == [r.user EXCEPT !.accessToken = r.freshAccessToken]
  IN /\ r.pc = "userUpdate"
     /\ User' = { IF u.id = r.user.id THEN [u EXCEPT !.accessToken = r.freshAccessToken]
                                     ELSE u : u \in User }
     /\ Set(s, FetchEmailsCall([r EXCEPT !.user = user], r.freshAccessToken))
     /\ UNCHANGED <<Email, oauth2Client>>

\* user.update rejects.
UserUpdateFail(s, error) ==
  /\ sync[s].pc = "userUpdate"
  /\ Set(s, RefreshFailed(sync[s], error))
  /\ UNCHANGED <<User, Email, oauth2Client>>

\* -------------------------------------------------------------- fetchEmails
\* Mutant: the catch of fetchEmails does not end the connection.
EndIfOpen_Leaves(connection) == connection

\* if (connection) { connection.end() } in the catch of fetchEmails (355-362).
EndIfOpen(connection) == IF connection = "none" THEN "none" ELSE "ended"

\* Mutant: the catch of fetchEmails throws an error of its own.
Rethrown_Generic(error) == <<"IMAP fetch failed">>

\* throw error (366): the error that was caught, as it is.
Rethrown(error) == error

\* Mutant: the catch of fetchEmails returns an empty list, which
\* fetchUserEmails merges and returns.
FetchEmailsCatch_ReturnsNone(r, error) ==
  [r EXCEPT !.connection = EndIfOpen(@), !.cause = error, !.pc = "done", !.result = <<>>]

\* catch of fetchEmails: end the connection if there is one, rethrow; the
\* error then passes the catch of fetchUserEmails.  cause keeps the error
\* that was caught.
FetchEmailsCatch(r, error) ==
  Throw([r EXCEPT !.connection = EndIfOpen(@), !.cause = error],
        FetchUserEmailsCatch(Rethrown(error)))

\* imaps.connect(config) resolves with a connection.
ConnectDone(s) ==
  /\ sync[s].pc = "connect"
  /\ Set(s, [sync[s] EXCEPT !.pc = "openBox", !.connection = "open"])
  /\ UNCHANGED <<User, Email, oauth2Client>>

\* imaps.connect rejects: authentication refused, or no transport.
ConnectFail(s, error) ==
  /\ sync[s].pc = "connect"
  /\ Set(s, FetchEmailsCatch(sync[s], error))
  /\ UNCHANGED <<User, Email, oauth2Client>>

\* connection.openBox("INBOX") resolves.
OpenBoxDone(s) ==
  /\ sync[s].pc = "openBox"
  /\ Set(s, [sync[s] EXCEPT !.pc = "search"])
  /\ UNCHANGED <<User, Email, oauth2Client>>

OpenBoxFail(s, error) ==
  /\ sync[s].pc = "openBox"
  /\ Set(s, FetchEmailsCatch(sync[s], error))
  /\ UNCHANGED <<User, Email, oauth2Client>>

\* messages.slice(0, limit)
Slice(messages, limit) ==
  SubSeq(messages, 1, IF Len(messages) < limit THEN Len(messages) ELSE limit)

\* connection.search resolves with the messages of the inbox; the callbacks
\* of limitedMessages.map start and the call awaits Promise.all.
SearchDone(s, messages) ==
  /\ sync[s].pc = "search"
  /\ Set(s, [sync[s] EXCEPT !.pc = "process", !.messages = Slice(messages, DefaultLimit)])
  /\ UNCHANGED <<User, Email, oauth2Client>>

SearchFail(s, error) ==
  /\ sync[s].pc = "search"
  /\ Set(s, FetchEmailsCatch(sync[s], error))
  /\ UNCHANGED <<User, Email, oauth2Client>>

\* emailData after the headers are read (280-297).
Headers(message) ==
  [messageId |-> message.uid, from |-> "from", subject |-> "subject", date |-> "date",
   body |-> "", bodyHtml |-> "", hasAttachments |-> FALSE]

\* emailData after simpleParser resolved (302-318).
Parsed(emailData) ==
  [emailData EXCEPT !.body = "text", !.bodyHtml = "html", !.hasAttachments = TRUE]

\* A promise of emailPromises that rejects.
Rejected == [Null EXCEPT !.messageId = -1]

\* Mutant: the inner catch rethrows, and the outer catch drops the message.
ParseCatch_Drops(emailData) == Null

\* catch (parseErr): a warning is logged and the callback goes on to
\* return emailData.
ParseCatch(emailData) == emailData

\* Mutant: the outer catch rethrows, and the promise of the message rejects.
ProcessCatch_Rethrows(message) == Rejected

\* catch (err): an error is logged and the callback returns null.
ProcessCatch(message) == Null

\* The callback of limitedMessages.map for one message.
ProcessMessage(message) ==
  CASE message.fault = "process" -> ProcessCatch(message)
    [] message.fault = "bodyParse" -> ParseCatch(Headers(message))
    [] OTHER -> Parsed(Headers(message))

\* (await Promise.all(emailPromises)).filter((email) => email !== null)
NotNull(email) == email # Null

\* saveEmailsToDatabase(emails, user.id) up to its first await: the first
\* findOrCreate, or its end when there is nothing to save, after which
\* fetchUserEmails returns emails.
SaveEmailsCall(r) ==
  IF r.emails = <<>>
    THEN [r EXCEPT !.pc = "done", !.result = r.emails]
    ELSE [r EXCEPT !.pc = "findOrCreate", !.i = 1]

\* Promise.all settles: it rejects if a callback rejected, else the call
\* filters the nulls out, ends the connection and returns the emails.
ProcessDone(s) ==
  LET r == sync[s]
      settled == [i \in 1..Len(r.messages) |-> ProcessMessage(r.messages[i])]
  IN /\ r.pc = "process"
     /\ IF \E i \in DOMAIN settled : settled[i] = Rejected
          THEN Set(s, FetchEmailsCatch(r, <<"Error processing individual email">>))
          ELSE Set(s, SaveEmailsCall([r EXCEPT !.emails = SelectSeq(settled, NotNull),
                                               !.connection = "ended"]))
     /\ UNCHANGED <<User, Email, oauth2Client>>

\* ----------------------------------------------------- saveEmailsToDatabase
\* Mutant: the lookup leaves the message id out of its where clause.
Where_UserOnly(row, userId, messageId) == row.userId = userId

\* where: { userId: userId, messageId: email.messageId }
Where(row, userId, messageId) == row.userId = userId /\ row.messageId = messageId

\* Mutant: the table has no unique index on (userId, messageId).
UniqueUserMessage_NoIndex(rows, row) == TRUE

\* The index unique_user_message on (userId, messageId) admits the row.
UniqueUserMessage(rows, row) ==
  ~ \E e \in rows : e.userId = row.userId /\ e.messageId = row.messageId

\* defaults: { ...email, userId }, with the primary key the table gives.
NewRow(rows, email, userId) ==
  [id |-> Cardinality(rows) + 1, userId |-> userId, messageId |-> email.messageId,
   from |-> email.from, subject |-> email.subject, date |-> email.date,
   body |-> email.body, bodyHtml |-> email.bodyHtml,
   hasAttachments |-> email.hasAttachments]

\* Mutant: a found instance is updated with the fetched email (an upsert).
Found_Updates(rows, email, userId) ==
  { IF row.userId = userId /\ row.messageId = email.messageId
      THEN [row EXCEPT !.from = email.from, !.subject = email.subject,
                       !.date = email.date, !.body = email.body,
                       !.bodyHtml = email.bodyHtml,
                       !.hasAttachments = email.hasAttachments]
      ELSE row : row \in rows }

\* The table after findOrCreate found the instance: nothing is written.
Found(rows, email, userId) == rows

\* if (created) savedCount++ else skippedCount++, then the next email of the
\* loop, or the end of saveEmailsToDatabase and return emails.
Counted(r, created) ==
  LET c == IF created THEN [r EXCEPT !.savedCount = @ + 1]
                      ELSE [r EXCEPT !.skippedCount = @ + 1]
  IN IF r.i = Len(r.emails)
       THEN [c EXCEPT !.pc = "done", !.result = r.emails]
       ELSE [c EXCEPT !.pc = "findOrCreate", !.i = @ + 1]

\* findOrCreate has looked the key up: the instance is found, or an insert
\* is issued.
FindOrCreateFind(s) ==
  LET r == sync[s]
      email == r.emails[r.i]
  IN /\ r.pc = "findOrCreate"
     /\ IF \E row \in Email : Where(row, r.user.id, email.messageId)
          THEN /\ Email' = Found(Email, email, r.user.id)
               /\ Set(s, Counted(r, FALSE))
          ELSE /\ Set(s, [r EXCEPT !.pc = "create"])
               /\ UNCHANGED Email
     /\ UNCHANGED <<User, oauth2Client>>

\* Mutant: the try is inside the loop: the record that failed is counted as
\* skipped and the loop goes on with the next.
SaveCatch_Continues(r, error) ==
  [Counted(r, FALSE) EXCEPT !.saveError = TRUE, !.cause = error]

\* Mutant: the catch of saveEmailsToDatabase rethrows.
SaveCatch_Rethrows(r, error) ==
  Throw([r EXCEPT !.saveError = TRUE, !.cause = error], FetchUserEmailsCatch(error))

\* catch of saveEmailsToDatabase: the error is logged and not thrown, and
\* fetchUserEmails returns emails.  cause keeps the error that was caught.
SaveCatch(r, error) ==
  [r EXCEPT !.pc = "done", !.result = r.emails, !.saveError = TRUE, !.cause = error]

\* Mutant: the rows are written with Email.create, whose refused insert
\* rejects with the error of the unique index.
Refused_Throws(r) == SaveCatch(r, <<"SequelizeUniqueConstraintError">>)

\* The unique index refused the insert of Email.findOrCreate (60-66):
\* findOrCreate resolves with the row that is there and created = false.
Refused(r) == Counted(r, FALSE)

\* The insert of findOrCreate is answered: the row is stored, or the unique
\* index refuses it and findOrCreate gives the row that is there.
FindOrCreateCreate(s) ==
  LET r == sync[s]
      email == r.emails[r.i]
      row == NewRow(Email, email, r.user.id)
  IN /\ r.pc = "create"
     /\ IF UniqueUserMessage(Email, row)
          THEN /\ Email' = Email \cup {row}
               /\ Set(s, Counted(r, TRUE))
          ELSE /\ Email' = Found(Email, email, r.user.id)
               /\ Set(s, Refused(r))
     /\ UNCHANGED <<User, oauth2Client>>

\* findOrCreate rejects.
FindOrCreateFail(s, error) ==
  /\ sync[s].pc \in {"findOrCreate", "create"}
  /\ Set(s, SaveCatch(sync[s], error))
  /\ UNCHANGED <<User, Email, oauth2Client>>

\* ------------------------------------------------------ handleOAuthCallback
\* Authorization codes, each granted by the owner of one Google account.
Codes == {"code-a", "code-b"}

\* jwt.email of the id token the provider issues for a code.
GrantedBy(code) == IF code = "code-a" THEN "a@x.com" ELSE "b@x.com"

\* The access tokens the provider issues for an account, and its refresh
\* token: the provider never issues a token of one account for another.
OwnedAccessTokens(email) ==
  IF email = "a@x.com" THEN {"a.at1", "a.at2"}
  ELSE IF email = "b@x.com" THEN {"b.at1", "b.at2"}
  ELSE {}

OwnedRefreshToken(email) == IF email = "a@x.com" THEN "a.rt" ELSE "b.rt"

\* The account a refresh token was issued for.
OwnerOf(refreshToken) ==
  IF refreshToken = "a.rt" THEN "a@x.com"
  ELSE IF refreshToken = "b.rt" THEN "b@x.com"
  ELSE ""

\* What oauth2Client.getToken(code) may resolve with: tokens of the account
\* that granted the code; the provider may leave the refresh token out.
Grants(code) ==
  { [access_token |-> at, refresh_token |-> rt, email |-> GrantedBy(code)] :
      at \in OwnedAccessTokens(GrantedBy(code)),
      rt \in {OwnedRefreshToken(GrantedBy(code)), NoToken} }

\* catch of handleOAuthCallback: throw new Error(`Authentication failed: ...`)
AuthFailed(error) == <<"Authentication failed: ">> \o error

MissingCode == <<"Missing authorization code">>

\* Mutant: the account is written with User.create.
Upsert_Inserts(rows, values) ==
  rows \cup {[id |-> Cardinality(rows) + 1, email |-> values.email,
              accessToken |-> values.access_token,
              refreshToken |-> values.refresh_token]}

\* User.upsert({ email, accessToken, refreshToken }) (55-59): the row of the
\* unique email is updated, or a row is inserted when there is none; a
\* refresh token that is undefined is left out of the update.
Upsert(rows, values) ==
  IF \E u \in rows : u.email = values.email
    THEN { IF u.email = values.email
             THEN [u EXCEPT !.accessToken = values.access_token,
                            !.refreshToken = IF values.refresh_token = NoToken
                                               THEN @ ELSE values.refresh_token]
             ELSE u : u \in rows }
    ELSE rows \cup {[id |-> IdOf(values.email), email |-> values.email,
                     accessToken |-> values.access_token,
                     refreshToken |-> values.refresh_token]}

\* Mutant: the short scope names of the README.
AuthUrlOptions_ShortScopes ==
  [access_type |-> "offline", prompt |-> "consent",
   scope |-> <<"https://mail.google.com/", "profile", "email">>]

\* The options generateAuthUrl gives to oauth2Client.generateAuthUrl (17-26).
AuthUrlOptions ==
  [access_type |-> "offline", prompt |-> "consent",
   scope |-> <<"https://mail.google.com/", "openid",
               "https://www.googleapis.com/auth/userinfo.email",
               "https://www.googleapis.com/auth/userinfo.profile">>]

\* oauth2Client.generateAuthUrl(options): the consent endpoint followed by
\* the options as the parameters of its query.
ClientGenerateAuthUrl(options) ==
  <<"https://accounts.google.com/o/oauth2/v2/auth?", options>>

\* generateAuthUrl(): the user is sent to the consent page of the provider.
GenerateAuthUrl(c) ==
  /\ callback[c].pc = "idle"
  /\ callback' = [callback EXCEPT ![c] =
       [@ EXCEPT !.pc = "consent", !.url = ClientGenerateAuthUrl(AuthUrlOptions)]]
  /\ UNCHANGED <<User, Email, oauth2Client, sync, response, reader, storedCall, dashboard>>

\* Mutant: the test for a missing code is left out.
CodeMissing_Unchecked(code) == FALSE

\* if (!code): null, undefined and "" alike.
CodeMissing(code) == code = ""

\* Google redirects to the callback, after a consent this service asked for
\* or without one: handleOAuthCallback(code) runs up to its await of
\* getToken, or throws for a missing code.
HandleOAuthCallback(c, code) ==
  /\ callback[c].pc \in {"idle", "consent"}
  /\ callback' = [callback EXCEPT ![c] =
       IF CodeMissing(code)
         THEN [@ EXCEPT !.pc = "failed", !.error = MissingCode]
         ELSE [@ EXCEPT !.pc = "getToken", !.code = code, !.getTokenCalls = @ + 1]]
  /\ UNCHANGED <<User, Email, oauth2Client, sync, response, reader, storedCall, dashboard>>

\* getToken resolves: the tokens are set on the shared client, the email is
\* read from the id token, and User.upsert is awaited.
GetTokenDone(c, tokens) ==
  /\ callback[c].pc = "getToken"
  /\ oauth2Client' = [access_token |-> tokens.access_token,
                       refresh_token |-> tokens.refresh_token]
  /\ callback' = [callback EXCEPT ![c] = [@ EXCEPT !.pc = "upsert", !.tokens = tokens]]
  /\ UNCHANGED <<User, Email, sync, response, reader, storedCall, dashboard>>

\* getToken rejects.
GetTokenFail(c, error) ==
  /\ callback[c].pc = "getToken"
  /\ callback' = [callback EXCEPT ![c] = [@ EXCEPT !.pc = "failed", !.error = AuthFailed(error)]]
  /\ UNCHANGED <<User, Email, oauth2Client, sync, response, reader, storedCall, dashboard>>

\* User.upsert is done; handleOAuthCallback returns the email.
UpsertDone(c) ==
  /\ callback[c].pc = "upsert"
  /\ User' = Upsert(User, callback[c].tokens)
  /\ callback' = [callback EXCEPT ![c] = [@ EXCEPT !.pc = "done"]]
  /\ UNCHANGED <<Email, oauth2Client, sync, response, reader, storedCall, dashboard>>

\* User.upsert rejects.
UpsertFail(c, error) ==
  /\ callback[c].pc = "upsert"
  /\ callback' = [callback EXCEPT ![c] = [@ EXCEPT !.pc = "failed", !.error = AuthFailed(error)]]
  /\ UNCHANGED <<User, Email, oauth2Client, sync, response, reader, storedCall, dashboard>>

\* Mutant: the credentials are read from the shared client when the
\* provider answers, as after an await between setCredentials and
\* getAccessToken.
CredentialsRead_Late(atCall, atAnswer) == atAnswer

\* oauth2Client.setCredentials(...) and oauth2Client.getAccessToken() run in
\* one synchronous stretch (87-93), and getAccessToken reads the credentials
\* of the client when it is called: the request to the provider is made
\* with what this call has set, whatever the client holds at the answer.
CredentialsRead(atCall, atAnswer) == atCall

\* What getAccessToken may resolve with for a call of refreshAccessToken:
\* the access token of the credentials, or one the provider issues for the
\* account of their refresh token, or nothing.
Answers(r) ==
  LET credentials ==
        CredentialsRead([access_token |-> r.user.accessToken,
                         refresh_token |-> r.user.refreshToken], oauth2Client)
  IN {credentials.access_token, NoToken}
       \cup OwnedAccessTokens(OwnerOf(credentials.refresh_token))

\* ------------------------------------------------- fetch endpoint (controller)
\* Values of process.env.NODE_ENV.
NodeEnvs == {"production", "development"}

\* message.includes(needle), on messages and needles as sequences of
\* fragments: the needle is a run of fragments of the message.
Includes(message, needle) ==
  \E k \in 1..(Len(message) - Len(needle) + 1) :
    SubSeq(message, k, k + Len(needle) - 1) = needle

\* Mutant: the detail of the error is sent whatever the environment.
ErrorDetail_Leaks(error, nodeEnv) == error

\* process.env.NODE_ENV === "production" ? "Internal server error" : error.message
ErrorDetail(error, nodeEnv) ==
  IF nodeEnv = "production" THEN <<"Internal server error">> ELSE error

\* Mutant: the status is chosen by the whole message of the two errors that
\* fetchUserEmails raises itself.
ErrorResponse_WholeMessage(error, nodeEnv) ==
  IF error = UserNotFound
    THEN [status |-> 404, message |-> "User not found", error |-> error,
          count |-> 0, nodeEnv |-> nodeEnv]
  ELSE IF error = FetchUserEmailsCatch(ReauthRequired)
    THEN [status |-> 401, message |-> "Authentication required", error |-> error,
          count |-> 0, nodeEnv |-> nodeEnv]
  ELSE [status |-> 500, message |-> "Failed to fetch emails",
        error |-> ErrorDetail(error, nodeEnv), count |-> 0, nodeEnv |-> nodeEnv]

\* catch of the controller (36-63): the status by what the message includes.
ErrorResponse(error, nodeEnv) ==
  IF Includes(error, <<"User not found">>)
    THEN [status |-> 404, message |-> "User not found", error |-> error,
          count |-> 0, nodeEnv |-> nodeEnv]
  ELSE IF Includes(error, <<"re-authentication">>)
    THEN [status |-> 401, message |-> "Authentication required", error |-> error,
          count |-> 0, nodeEnv |-> nodeEnv]
  ELSE [status |-> 500, message |-> "Failed to fetch emails",
        error |-> ErrorDetail(error, nodeEnv), count |-> 0, nodeEnv |-> nodeEnv]

\* GET /email/fetch?email=...: 400 without the parameter, else
\* fetchUserEmails(email) is called and awaited.
ControllerFetchEmails(s, email) ==
  /\ response[s] = NoResponse
  /\ sync[s].pc = "idle"
  /\ IF email = ""
       THEN /\ response' = [response EXCEPT ![s] =
                 [status |-> 400, message |-> "Missing email parameter",
                  error |-> <<"Email address is required in query parameters">>,
                  count |-> 0, nodeEnv |-> ""]]
            /\ UNCHANGED <<User, Email, oauth2Client, sync, callback, reader, storedCall, dashboard>>
       ELSE FetchUserEmails(s, email)

\* fetchUserEmails has returned or thrown: the controller answers 201 with
\* the emails, or maps the error to a status.
ControllerRespond(s, nodeEnv) ==
  /\ response[s] = NoResponse
  /\ sync[s].pc \in {"done", "failed"}
  /\ response' = [response EXCEPT ![s] =
       IF sync[s].pc = "done"
         THEN [status |-> 201, message |-> "Emails fetched and stored successfully",
               error |-> <<>>, count |-> Len(sync[s].result), nodeEnv |-> nodeEnv]
         ELSE ErrorResponse(sync[s].error, nodeEnv)]
  /\ UNCHANGED <<User, Email, oauth2Client, sync, callback, reader, storedCall, dashboard>>

\* ------------------------------------------------- fetchEmails with a limit
\* The content of the messages is kept by its lengths in characters, which
\* is what the limits of fetchEmails are about.

\* Lengths parsed.text may have; 0 is a mail without a text part.
TextLengths == {0, MaxBody, MaxBody + 1}

\* parsed.html by its length and by the length of the text htmlToText leaves
\* of it (tags become blanks, blanks collapse: never longer than the html);
\* length 0 is a mail without an html part.
HtmlParts ==
  { [length |-> 0, text |-> 0],
    [length |-> MaxBodyHtml, text |-> MaxBody],
    [length |-> MaxBodyHtml + 1, text |-> MaxBody + 1] }

\* A message of the mailbox with the parts simpleParser finds in it.
Mails == [uid : Uids, fault : Faults, text : TextLengths, html : HtmlParts]

\* The results connection.search may give, uids ascending.
MailLists ==
  { m \in UNION { [1..n -> Mails] : n \in 0..MaxUid } :
      \A i, j \in DOMAIN m : i < j => m[i].uid < m[j].uid }

\* The limits fetchEmails is called with; DefaultLimit is the call without one.
Limits == (0..MaxUid) \cup {DefaultLimit}

\* Mutant: the string is kept whole.
Substring_Whole(length, end) == length

\* Length of string.substring(0, end) for a string of that length.
Substring(length, end) == IF length < end THEN length ELSE end

\* Length of htmlToText(html) (200-208).
HtmlToText(html) == html.text

\* emailData.body (305-309): the text part, else the text of the html part.
Body(mail) ==
  IF mail.text > 0 THEN Substring(mail.text, MaxBody)
  ELSE IF mail.html.length > 0 THEN Substring(HtmlToText(mail.html), MaxBody)
  ELSE 0

\* emailData.bodyHtml (312-314).
BodyHtml(mail) ==
  IF mail.html.length > 0 THEN Substring(mail.html.length, MaxBodyHtml) ELSE 0

\* What the callback of limitedMessages.map gives for one message (275-335),
\* bodies by their lengths; messageId 0 is null.
Record(mail) ==
  IF mail.fault = "process" THEN [messageId |-> 0, body |-> 0, bodyHtml |-> 0]
  ELSE IF mail.fault = "bodyParse" THEN [messageId |-> mail.uid, body |-> 0, bodyHtml |-> 0]
  ELSE [messageId |-> mail.uid, body |-> Body(mail), bodyHtml |-> BodyHtml(mail)]

\* emails.filter(email => email !== null) over the mapped messages (337-339).
RECURSIVE Records(_)
Records(mails) ==
  IF mails = <<>> THEN <<>>
  ELSE LET record == Record(Head(mails))
       IN (IF record.messageId = 0 THEN <<>> ELSE <<record>>) \o Records(Tail(mails))

\* fetchEmails(accessToken, emailAddress, limit) has connected and opened
\* the inbox, and connection.search resolves: the first limit messages are
\* taken, their callbacks start.
ReaderSearchDone ==
  /\ reader.pc = "idle"
  /\ \E limit \in Limits, messages \in MailLists :
       reader' = [reader EXCEPT !.pc = "process", !.limit = limit,
                                !.found = Len(messages),
                                !.messages = Slice(messages, limit)]
  /\ UNCHANGED <<User, Email, oauth2Client, sync, response, callback, storedCall, dashboard>>

\* Promise.all resolves and fetchEmails returns the records.
ReaderProcessDone ==
  /\ reader.pc = "process"
  /\ reader' = [reader EXCEPT !.pc = "done", !.emails = Records(reader.messages)]
  /\ UNCHANGED <<User, Email, oauth2Client, sync, response, callback, storedCall, dashboard>>

\* ------------------------------------------------------------ buildXOAuth2Token
\* Strings are sequences of bytes here. The addresses and tokens given: the
\* strings of at most n characters out of a, @ and the dot.
RECURSIVE Strings(_)
Strings(n) ==
  IF n = 0 THEN {<<>>}
  ELSE Strings(n - 1) \cup
       { <<c>> \o s : c \in {97, 64, 46}, s \in { x \in Strings(n - 1) : Len(x) = n - 1 } }

\* parts.join(sep)
RECURSIVE Join(_, _)
Join(parts, sep) ==
  IF parts = <<>> THEN <<>>
  ELSE IF Len(parts) = 1 THEN parts[1]
  ELSE parts[1] \o sep \o Join(Tail(parts), sep)

\* Mutant: the array ends with the bearer part.
AuthParts_Unterminated(email, accessToken) ==
  << <<117, 115, 101, 114, 61>> \o email,
     <<97, 117, 116, 104, 61, 66, 101, 97, 114, 101, 114, 32>> \o accessToken >>

\* The array that is joined (188-193): 'user=' + email, 'auth=Bearer ' +
\* accessToken, '' and ''.
AuthParts(email, accessToken) ==
  << <<117, 115, 101, 114, 61>> \o email,
     <<97, 117, 116, 104, 61, 66, 101, 97, 114, 101, 114, 32>> \o accessToken,
     <<>>, <<>> >>

\* The alphabet of base64.
Base64Alphabet ==
  <<
    "A", "B", "C", "D", "E", "F", "G", "H", "I", "J", "K", "L", "M", "N", "O", "P",
    "Q", "R", "S", "T", "U", "V", "W", "X", "Y", "Z", "a", "b", "c", "d", "e", "f",
    "g", "h", "i", "j", "k", "l", "m", "n", "o", "p", "q", "r", "s", "t", "u", "v",
    "w", "x", "y", "z", "0", "1", "2", "3", "4", "5", "6", "7", "8", "9", "+", "/"
  >>

\* Buffer.from(bytes).toString('base64'): three bytes give four characters,
\* a last group of one or two bytes is padded with =.
RECURSIVE Base64(_)
Base64(bytes) ==
  LET n == Len(bytes)
      b1 == bytes[1]
      b2 == IF n >= 2 THEN bytes[2] ELSE 0
      b3 == IF n >= 3 THEN bytes[3] ELSE 0
      c1 == Base64Alphabet[(b1 \div 4) + 1]
      c2 == Base64Alphabet[(b1 % 4) * 16 + (b2 \div 16) + 1]
      c3 == Base64Alphabet[(b2 % 16) * 4 + (b3 \div 64) + 1]
      c4 == Base64Alphabet[(b3 % 64) + 1]
  IN IF n = 0 THEN <<>>
     ELSE IF n = 1 THEN <<c1, c2, "=", "=">>
     ELSE IF n = 2 THEN <<c1, c2, c3, "=">>
     ELSE <<c1, c2, c3, c4>> \o Base64(SubSeq(bytes, 4, n))

\* authString (188-193): the array joined with '\x01'.
AuthString(email, accessToken) == Join(AuthParts(email, accessToken), <<1>>)

\* buildXOAuth2Token(email, accessToken)
BuildXOAuth2Token(email, accessToken) == Base64(AuthString(email, accessToken))

\* fetchEmails(accessToken, emailAddress) builds its config and awaits
\* imaps.connect.
ReaderConnect ==
  /\ reader.pc = "idle"
  /\ \E accessToken \in Strings(MaxLen), emailAddress \in Strings(MaxLen) :
       reader' = [reader EXCEPT !.pc = "connect", !.user = <<emailAddress, accessToken>>,
                                !.xoauth2 = BuildXOAuth2Token(emailAddress, accessToken)]
  /\ UNCHANGED <<User, Email, oauth2Client, sync, response, callback, storedCall, dashboard>>

\* ------------------------------------------------------------ getStoredEmails
\* The sender of the message of a uid: the mailboxes of both accounts hold
\* mail of both senders.
SenderOf(uid) == IF uid % 2 = 1 THEN "alice@x.com" ELSE "bob@y.org"

\* The row a merge stores for the message uid of an account.
StoredRow(rows, userId, uid) ==
  NewRow(rows, [Headers([uid |-> uid, fault |-> "none"]) EXCEPT !.from = SenderOf(uid)],
         userId)

\* The table after the messages of `keys` (pairs of account id and uid) were
\* merged one after the other.
RECURSIVE Merged(_)
Merged(keys) ==
  IF keys = <<>> THEN {}
  ELSE LET rows == Merged(Tail(keys))
       IN rows \cup {StoredRow(rows, Head(keys)[1], Head(keys)[2])}

\* The keys a table may hold, in one order.
RECURSIVE KeyLists(_, _)
KeyLists(userId, uid) ==
  IF userId = 0 THEN {<<>>}
  ELSE LET rest == IF uid = 1 THEN KeyLists(userId - 1, MaxUid)
                                ELSE KeyLists(userId, uid - 1)
       IN rest \cup { <<<<userId, uid>>>> \o keys : keys \in rest }

\* The tables the syncs of both accounts may have left.
StoredTables == { Merged(keys) : keys \in KeyLists(2, MaxUid) }

\* The searches of a query: none, blank, the wildcard of LIKE, a sender's
\* name, the subject, and one that matches nothing.
Searches == {"", " ", "%", "alice", "subject", "zzz"}

\* search.trim()
Trim(search) == IF search = " " THEN "" ELSE search

\* value LIKE `%${search}%`
Like(value, search) ==
  \/ search \in {"", "%"}
  \/ search = "alice" /\ value = "alice@x.com"
  \/ search = "subject" /\ value = "subject"

\* Mutant: a search is made over the rows of every account.
WhereClause_SearchAll(row, userId, search) ==
  IF search # "" /\ Trim(search) # ""
    THEN Like(row.from, search) \/ Like(row.subject, search)
    ELSE row.userId = userId

\* whereClause (118-136): the rows of the account, and with a search those
\* of them whose from or subject is like it.
WhereClause(row, userId, search) ==
  IF search # "" /\ Trim(search) # ""
    THEN row.userId = userId /\ (Like(row.from, search) \/ Like(row.subject, search))
    ELSE row.userId = userId

\* The rows of a table that a where clause selects.
Selected(rows, userId, search) == { row \in rows : WhereClause(row, userId, search) }

\* The orders findAll may give rows in: the rows of the model have one date,
\* and the database orders rows of equal sort key as it likes.
Orders(rows) ==
  { order \in [1..Cardinality(rows) -> rows] :
      \A i, j \in DOMAIN order : i # j => order[i] # order[j] }

\* LIMIT limit OFFSET offset of an ordered result.
Page(order, offset, limit) ==
  SubSeq(order, offset + 1,
         IF Len(order) < offset + limit THEN Len(order) ELSE offset + limit)

\* Mutant: the pages are counted rounding down.
TotalPages_Floor(totalCount, limit) == totalCount \div limit

\* Math.ceil(totalCount / limit)
TotalPages(totalCount, limit) == (totalCount + limit - 1) \div limit

\* getStoredEmails(emailAddress, { page, limit, search }) runs up to its
\* await of User.findOne.
GetStoredEmails ==
  /\ storedCall.pc = "idle"
  /\ \E emailAddress \in Addresses \cup {"nobody@x.com"}, page \in 1..MaxPage,
        limit \in {1, 2, DefaultPageLimit, MaxPageLimit}, search \in Searches :
       storedCall' = [storedCall EXCEPT !.pc = "findOne", !.emailAddress = emailAddress,
                                        !.page = page, !.limit = limit, !.search = search]
  /\ UNCHANGED <<User, Email, oauth2Client, sync, response, callback, reader, dashboard>>

\* User.findOne answers: without an account the call throws, with one
\* Email.count is awaited.
StoredFindOneDone ==
  LET found == { u \in User : u.email = storedCall.emailAddress }
  IN /\ storedCall.pc = "findOne"
     /\ storedCall' =
          IF found = {}
            THEN [storedCall EXCEPT !.pc = "failed", !.error = UserNotFound]
            ELSE [storedCall EXCEPT !.pc = "count", !.user = CHOOSE u \in found : TRUE]
     /\ UNCHANGED <<User, Email, oauth2Client, sync, response, callback, reader, dashboard>>

\* Email.count answers; Email.findAll is awaited.
StoredCountDone ==
  /\ storedCall.pc = "count"
  /\ storedCall' =
       [storedCall EXCEPT !.pc = "findAll",
          !.totalCount = Cardinality(Selected(Email, storedCall.user.id, storedCall.search))]
  /\ UNCHANGED <<User, Email, oauth2Client, sync, response, callback, reader, dashboard>>

\* Email.findAll answers with the page; the pagination is computed and the
\* result returned.
StoredFindAllDone ==
  LET q == storedCall
      offset == (q.page - 1) * q.limit
      totalPages == TotalPages(q.totalCount, q.limit)
  IN /\ q.pc = "findAll"
     /\ \E order \in Orders(Selected(Email, q.user.id, q.search)) :
          storedCall' =
            [q EXCEPT !.pc = "done",
                      !.emails = Page(order, offset, q.limit),
                      !.pagination =
                         [currentPage |-> q.page, totalPages |-> totalPages,
                          totalCount |-> q.totalCount, limit |-> q.limit,
                          hasNextPage |-> q.page < totalPages,
                          hasPrevPage |-> q.page > 1]]
     /\ UNCHANGED <<User, Email, oauth2Client, sync, response, callback, reader, dashboard>>

\* One of the three queries rejects: getStoredEmails has no try, the error
\* leaves it as it is.
StoredFail(error) ==
  /\ storedCall.pc \in {"findOne", "count", "findAll"}
  /\ storedCall' = [storedCall EXCEPT !.pc = "failed", !.error = error]
  /\ UNCHANGED <<User, Email, oauth2Client, sync, response, callback, reader, dashboard>>

\* ----------------------------------------------------------------- Dashboard
\* The dashboard of one address.  inflight holds the requests that are not
\* answered yet: a fetch is POST /email/fetch, a stored one is the request
\* of getStoredEmails, numbered in the order of issue.  shown is the request
\* whose result setEmails and setPagination were last called with, timer the
\* query of the pending setTimeout of the search, rejected the numbers of
\* the stored requests that failed.

\* The texts of the search input.
Queries == {"", "a"}

\* loadStoredEmails(page, search) up to its await (64-73): the request is
\* sent.
LoadStoredEmails(d, page, search, origin) ==
  [d EXCEPT !.issued = @ + 1,
            !.inflight = @ \cup {[kind |-> "stored", origin |-> origin, page |-> page,
                                  search |-> search, seq |-> d.issued + 1]}]

\* Mutant: a result is set only if no request was issued after its own.
SetEmails_IfLatest(d, q) ==
  IF q.seq = d.issued THEN [d EXCEPT !.shown = q, !.currentPage = q.page] ELSE d

\* setEmails(result.emails), setPagination(result.pagination),
\* setCurrentPage(page) (75-77).
SetEmails(d, q) == [d EXCEPT !.shown = q, !.currentPage = q.page]

\* The component mounts (17-25, 31-47): loading, and fetchEmails is awaited.
DashboardMount ==
  /\ dashboard = NoDashboard
  /\ dashboard' = [dashboard EXCEPT !.loading = TRUE, !.currentPage = 1,
                      !.inflight = {[kind |-> "fetch", origin |-> "mount"]}]
  /\ UNCHANGED <<User, Email, oauth2Client, sync, response, callback, reader, storedCall>>

\* fetchEmails resolves in loadEmails or handleRefresh: loadStoredEmails(1, "")
\* is called.
FetchResolved ==
  /\ \E f \in dashboard.inflight :
       /\ f.kind = "fetch"
       /\ dashboard' = LoadStoredEmails([dashboard EXCEPT !.inflight = @ \ {f}],
                                        1, "", f.origin)
  /\ UNCHANGED <<User, Email, oauth2Client, sync, response, callback, reader, storedCall>>

\* fetchEmails rejects: setError in the catch, setLoading(false) in the
\* finally.
FetchRejected ==
  /\ \E f \in dashboard.inflight :
       /\ f.kind = "fetch"
       /\ dashboard' = [dashboard EXCEPT !.inflight = @ \ {f}, !.error = TRUE,
                                          !.loading = FALSE]
  /\ UNCHANGED <<User, Email, oauth2Client, sync, response, callback, reader, storedCall>>

\* A request of getStoredEmails is answered: its result is set, the caller
\* of loadStoredEmails goes on (initialLoadDone after the load of the mount
\* and of a refresh) and its finally calls setLoading(false).
StoredResolved ==
  /\ \E q \in dashboard.inflight :
       /\ q.kind = "stored"
       /\ dashboard' =
            [SetEmails([dashboard EXCEPT !.inflight = @ \ {q}], q)
               EXCEPT !.initialLoadDone = IF q.origin \in {"mount", "refresh"} THEN TRUE ELSE @,
                      !.loading = FALSE]
  /\ UNCHANGED <<User, Email, oauth2Client, sync, response, callback, reader, storedCall>>

\* A request of getStoredEmails fails: loadStoredEmails rethrows, the
\* callers with a catch call setError, the search has none, and every
\* caller calls setLoading(false).
StoredRejected ==
  /\ \E q \in dashboard.inflight :
       /\ q.kind = "stored"
       /\ dashboard' =
            [dashboard EXCEPT !.inflight = @ \ {q},
                              !.rejected = @ \cup {q.seq},
                              !.error = IF q.origin = "search" THEN @ ELSE TRUE,
                              !.loading = FALSE]
  /\ UNCHANGED <<User, Email, oauth2Client, sync, response, callback, reader, storedCall>>

\* The search input changes (191, 209): it is rendered when neither the
\* spinner nor the error is (158-166).  The effect of searchQuery (85-96)
\* clears its timer and sets one if the initial load is done.
SetSearchQuery ==
  /\ dashboard # NoDashboard
  /\ ~dashboard.loading /\ ~dashboard.error
  /\ \E query \in Queries \ {dashboard.searchQuery} :
       dashboard' = [dashboard EXCEPT !.searchQuery = query,
                        !.timer = IF dashboard.initialLoadDone THEN <<query>> ELSE <<>>]
  /\ UNCHANGED <<User, Email, oauth2Client, sync, response, callback, reader, storedCall>>

\* The timer of the search fires (88-92): setLoading(true) and
\* loadStoredEmails(1, searchQuery) with the query of its render.
TimerFires ==
  /\ dashboard.timer # <<>>
  /\ dashboard.issued
       + Cardinality({f \in dashboard.inflight : f.kind = "fetch"}) < MaxRequests
  /\ dashboard' = LoadStoredEmails([dashboard EXCEPT !.timer = <<>>, !.loading = TRUE],
                                   1, dashboard.timer[1], "search")
  /\ UNCHANGED <<User, Email, oauth2Client, sync, response, callback, reader, storedCall>>

\* A button of the pagination is pressed (114-117): the buttons are
\* rendered with the list and disabled while loading.
HandlePageChange ==
  /\ ~dashboard.loading /\ ~dashboard.error
  /\ dashboard.shown # <<>>
  /\ dashboard.issued
       + Cardinality({f \in dashboard.inflight : f.kind = "fetch"}) < MaxRequests
  /\ \E newPage \in 1..MaxPage :
       dashboard' = LoadStoredEmails([dashboard EXCEPT !.loading = TRUE],
                                     newPage, dashboard.searchQuery, "page")
  /\ UNCHANGED <<User, Email, oauth2Client, sync, response, callback, reader, storedCall>>

\* The refresh button is pressed (98-104): the query is emptied, which
\* clears the timer of a query that was not empty, and fetchEmails is
\* awaited.
HandleRefresh ==
  /\ dashboard # NoDashboard
  /\ ~dashboard.loading /\ ~dashboard.error
  /\ dashboard.issued
       + Cardinality({f \in dashboard.inflight : f.kind = "fetch"}) < MaxRequests
  /\ dashboard' =
       [dashboard EXCEPT !.loading = TRUE, !.searchQuery = "",
                         !.initialLoadDone = FALSE,
                         !.timer = IF dashboard.searchQuery # "" THEN <<>> ELSE @,
                         !.inflight = @ \cup {[kind |-> "fetch", origin |-> "refresh"]}]
  /\ UNCHANGED <<User, Email, oauth2Client, sync, response, callback, reader, storedCall>>

\* Retry of the error card (176): window.location.reload(), the page and
\* its requests are gone.
Reload ==
  /\ dashboard.error /\ ~dashboard.loading
  /\ dashboard' = NoDashboard
  /\ UNCHANGED <<User, Email, oauth2Client, sync, response, callback, reader, storedCall>>

\* ------------------------------------------------------------ specification
\* The steps of a call after its account is read, without the answer of
\* the provider: the account is found or not, the token is persisted, the
\* mail server accepts the connection or not.
Account(s) ==
  \/ FindOneDone(s)
  \/ \E error \in DatabaseErrors : FindOneFail(s, error)
  \/ \E error \in ProviderErrors : GetAccessTokenFail(s, error)
  \/ UserUpdateDone(s)
  \/ \E error \in DatabaseErrors : UserUpdateFail(s, error)
  \/ ConnectDone(s)
  \/ \E error \in ImapErrors : ConnectFail(s, error)

\* The steps of a call of fetchUserEmails that is under way.
Run(s) ==
  \/ Account(s)
  \/ \E token \in AccessTokens \cup {NoToken} : GetAccessTokenDone(s, token)
  \/ OpenBoxDone(s)
  \/ \E error \in ImapErrors : OpenBoxFail(s, error)
  \/ \E messages \in ServerLists : SearchDone(s, messages)
  \/ \E error \in ImapErrors : SearchFail(s, error)
  \/ ProcessDone(s)
  \/ FindOrCreateFind(s)
  \/ FindOrCreateCreate(s)
  \/ \E error \in DatabaseErrors : FindOrCreateFail(s, error)

\* The steps of one call of fetchUserEmails.
Step(s) ==
  \/ \E emailAddress \in Addresses \cup {""} : FetchUserEmails(s, emailAddress)
  \/ Run(s)

\* Any number of calls up to NSyncs, their steps interleaved at the awaits.
Next == \E s \in Syncs : Step(s)

Spec == Init /\ [][Next]_vars

\* A single call of fetchUserEmails, for what a call does by itself.
NextSingle == Step(1)

SpecSingle == Init /\ [][NextSingle]_vars

\* A single call in which every awaited operation settles: the call is not
\* left pending for ever by the database, the provider or the mail server.
FairSingle == SpecSingle /\ WF_vars(NextSingle)

\* One request to the fetch endpoint.
NextController ==
  \/ \E email \in Addresses \cup {""} : ControllerFetchEmails(1, email)
  \/ Run(1)
  \/ \E nodeEnv \in NodeEnvs : ControllerRespond(1, nodeEnv)

SpecController == Init /\ [][NextController]_vars

\* Messages of the provider and of the mail server in which a phrase
\* occurs that the controller looks for: the text of a refused login, the
\* description of a refused grant.
MarkedErrors ==
  { <<"NO [AUTHENTICATIONFAILED] ", "User not found">>,
    <<"invalid_grant: ", "re-authentication", " needed">> }

\* One request to the fetch endpoint, the provider and the mail server
\* failing with any message.
NextMarked ==
  \/ NextController
  \/ \E error \in MarkedErrors : GetAccessTokenFail(1, error)
  \/ \E error \in MarkedErrors : ConnectFail(1, error)

SpecMarked == Init /\ [][NextMarked]_vars

\* The steps of one call of handleOAuthCallback.
Callback(c) ==
  \/ \E code \in Codes \cup {""} : HandleOAuthCallback(c, code)
  \/ \E tokens \in Grants(callback[c].code) : GetTokenDone(c, tokens)
  \/ \E error \in ProviderErrors : GetTokenFail(c, error)
  \/ UpsertDone(c)
  \/ \E error \in DatabaseErrors : UpsertFail(c, error)

\* The sign-in of users: the consent URL is asked for, and callbacks arrive.
NextConsent ==
  \E c \in Callbacks :
    \/ GenerateAuthUrl(c)
    \/ Callback(c)

SpecConsent == InitFresh /\ [][NextConsent]_vars

\* The accounts come into being by OAuth callbacks, and syncs run beside
\* them up to their connection to the mail server; the provider answers a
\* refresh for the credentials it was asked with.
NextAuth ==
  \/ \E c \in Callbacks : Callback(c)
  \/ \E s \in Syncs :
       \/ \E emailAddress \in Addresses : FetchUserEmails(s, emailAddress)
       \/ Account(s)
       \/ \E token \in Answers(sync[s]) : GetAccessTokenDone(s, token)

SpecAuth == InitFresh /\ [][NextAuth]_vars

\* Both accounts exist and their syncs have left any table of emails.
InitStored ==
  /\ Quiet
  /\ User = { [id |-> IdOf(a), email |-> a, accessToken |-> "at1", refreshToken |-> "rt1"] :
               a \in Addresses }
  /\ Email \in StoredTables
  /\ oauth2Client = [access_token |-> NoToken, refresh_token |-> NoToken]
  /\ sync = [s \in Syncs |-> IdleSync]

\* One call of getStoredEmails.
NextStored ==
  \/ GetStoredEmails
  \/ StoredFindOneDone
  \/ StoredCountDone
  \/ StoredFindAllDone
  \/ \E error \in DatabaseErrors : StoredFail(error)

SpecStored == InitStored /\ [][NextStored]_vars

\* The dashboard, the user and the answers of the server in any order.
NextDashboard ==
  \/ DashboardMount
  \/ FetchResolved
  \/ FetchRejected
  \/ StoredResolved
  \/ StoredRejected
  \/ SetSearchQuery
  \/ TimerFires
  \/ HandlePageChange
  \/ HandleRefresh
  \/ Reload

SpecDashboard == InitFresh /\ [][NextDashboard]_vars

\* A call of fetchEmails up to its connection, with any address and token.
NextConnect == ReaderConnect

SpecConnect == InitFresh /\ [][NextConnect]_vars

\* A call of fetchEmails with any limit on any mailbox.
NextReader ==
  \/ ReaderSearchDone
  \/ ReaderProcessDone

SpecReader == InitFresh /\ [][NextReader]_vars

\* ---------------------------------------------------------------- helpers
\* The rows of the emails table `rows` under one key.
RowsOf(rows, userId, messageId) ==
  { row \in rows : row.userId = userId /\ row.messageId = messageId }

\* The program counters of a sync whose fetchEmails has returned.
AfterFetch == {"findOrCreate", "create", "done"}

\* How far a call of fetchUserEmails is: Start until refreshAccessToken has
\* returned, TokenValid while fetchEmails runs, MessagesFetched while
\* saveEmailsToDatabase runs, Done once emails are returned, Failed once the
\* call has thrown.
Phase(r) ==
  CASE r.pc \in {"idle", "findOne", "getAccessToken", "userUpdate"} -> "Start"
    [] r.pc \in {"connect", "openBox", "search", "process"} -> "TokenValid"
    [] r.pc \in {"findOrCreate", "create"} -> "MessagesFetched"
    [] r.pc = "done" -> "Done"
    [] r.pc = "failed" -> "Failed"

\* The phases a call may be in one step after a phase.  An empty list of
\* records is merged at once, so the read may lead straight to Done.
Successors(phase) ==
  CASE phase = "Start" -> {"Start", "TokenValid", "Failed"}
    [] phase = "TokenValid" -> {"TokenValid", "MessagesFetched", "Done", "Failed"}
    [] phase = "MessagesFetched" -> {"MessagesFetched", "Done"}
    [] phase = "Done" -> {"Done"}
    [] phase = "Failed" -> {"Failed"}

\* How many messages of a list meet the fault.
CountFault(messages, fault) ==
  Cardinality({ i \in DOMAIN messages : messages[i].fault = fault })

\* ------------------------------------------------------------------- claims

\* C1: in every reachable state, whatever the number and interleaving of the
\* syncs, the emails table holds at most one row per (userId, messageId).
C1_OneRowPerKey ==
  \A e1, e2 \in Email :
    (e1.userId = e2.userId /\ e1.messageId = e2.messageId) => e1 = e2

\* C1 witness: two syncs of one owner raced on a message: one has inserted it
\* and is done, the other looked it up before and now has its insert pending.
C1_Witness ==
  \E s, t \in Syncs :
    /\ s # t
    /\ sync[s].pc = "create"
    /\ sync[t].pc = "done" /\ sync[t].savedCount >= 1
    /\ sync[s].user.id = sync[t].user.id
    /\ RowsOf(Email, sync[s].user.id, sync[s].emails[sync[s].i].messageId) # {}
    /\ \E j \in DOMAIN sync[t].emails :
         sync[t].emails[j].messageId = sync[s].emails[sync[s].i].messageId

\* C2: merging a record is idempotent.  A findOrCreate of a record whose key
\* is not stored inserts it and counts it as saved (saved +1, skipped +0); a
\* findOrCreate of a record whose key is stored, as after a first merge of
\* it, counts it as skipped (saved +0, skipped +1) and writes nothing; after
\* either the key has exactly one row.  So of two completed merges of the
\* same single record for one owner at most one counts it as saved.
C2_MergeIdempotent ==
  /\ [][ \A s \in Syncs :
           LET r == sync[s]
               q == sync'[s]
               userId == r.user.id
               messageId == r.emails[r.i].messageId
               stored == RowsOf(Email, userId, messageId) # {}
           IN (r.pc \in {"findOrCreate", "create"} /\ q # r /\ q.pc # "create"
                 /\ ~ q.saveError)
              => /\ Cardinality(RowsOf(Email', userId, messageId)) = 1
                 /\ IF stored
                      THEN /\ q.savedCount = r.savedCount
                           /\ q.skippedCount = r.skippedCount + 1
                           /\ Email' = Email
                      ELSE /\ q.savedCount = r.savedCount + 1
                           /\ q.skippedCount = r.skippedCount ]_vars
  /\ [] \A s, t \in Syncs :
          (/\ s # t
           /\ sync[s].pc = "done" /\ ~ sync[s].saveError
           /\ sync[t].pc = "done" /\ ~ sync[t].saveError
           /\ sync[s].user.id = sync[t].user.id
           /\ Len(sync[s].emails) = 1 /\ Len(sync[t].emails) = 1
           /\ sync[s].emails[1].messageId = sync[t].emails[1].messageId)
          => /\ ~ (sync[s].savedCount = 1 /\ sync[t].savedCount = 1)
             /\ sync[s].savedCount + sync[s].skippedCount = 1
             /\ Cardinality(RowsOf(Email, sync[s].user.id,
                                   sync[s].emails[1].messageId)) = 1

\* C2 witness: the same record was merged twice for one owner; one merge
\* counted inserted 1, skipped 0, the other inserted 0, skipped 1, and the
\* key has one row.
C2_Witness ==
  \E s, t \in Syncs :
    /\ s # t
    /\ sync[s].pc = "done" /\ ~ sync[s].saveError
    /\ sync[t].pc = "done" /\ ~ sync[t].saveError
    /\ sync[s].user.id = sync[t].user.id
    /\ Len(sync[s].emails) = 1 /\ sync[t].emails = sync[s].emails
    /\ sync[s].savedCount = 1 /\ sync[s].skippedCount = 0
    /\ sync[t].savedCount = 0 /\ sync[t].skippedCount = 1
    /\ Cardinality(RowsOf(Email, sync[s].user.id, sync[s].emails[1].messageId)) = 1

\* C3: first write wins: no step changes or removes a row of the emails
\* table, also when a sync fetches a stored message id with other content.
C3_FirstWriteWins == [][ \A row \in Email : row \in Email' ]_vars

\* C3 witness: a sync has merged, as skipped, a message whose fetched body
\* differs from the body of the stored row of its key.
C3_Witness ==
  \E s \in Syncs :
    /\ sync[s].pc = "done" /\ ~ sync[s].saveError /\ sync[s].skippedCount >= 1
    /\ \E j \in DOMAIN sync[s].emails :
         \E row \in RowsOf(Email, sync[s].user.id, sync[s].emails[j].messageId) :
           row.body # sync[s].emails[j].body

\* The emails fetchEmails returns for the messages of a sync.
Fetched(r) ==
  SelectSeq([i \in 1..Len(r.messages) |-> ProcessMessage(r.messages[i])], NotNull)

\* C4: if the cache write fails during the merge, fetchUserEmails still
\* completes and returns the full list fetched from the mailbox: no error,
\* no shortened list.
C4_SaveErrorReturnsAll ==
  \A s \in Syncs :
    sync[s].saveError =>
      /\ sync[s].pc = "done"
      /\ sync[s].error = <<>>
      /\ sync[s].result = Fetched(sync[s])
      /\ Len(sync[s].result) = Len(sync[s].messages) - CountFault(sync[s].messages, "process")

\* C4 witness: a merge failed on its second record after the first was
\* stored, and the sync returned both.
C4_Witness ==
  \E s \in Syncs :
    /\ sync[s].saveError /\ sync[s].pc = "done"
    /\ sync[s].i = 2 /\ sync[s].savedCount = 1
    /\ Len(sync[s].result) = 2

\* C5: fetchUserEmails for an address without an account fails with "User
\* not found", and that sync never sets credentials on the OAuth2 client,
\* never calls the token provider and never connects to the mail server.
C5_NoAccountNoNetwork ==
  \A s \in Syncs :
    LET r == sync[s]
    IN (r.pc \notin {"idle", "findOne"} /\ r.emailAddress # "" /\ r.user = NoUser
          /\ r.error \notin DatabaseErrors)
       => /\ r.pc = "failed"
          /\ r.error = UserNotFound
          /\ r.setCredentialsCalls = 0 /\ r.getAccessTokenCalls = 0
          /\ r.userUpdateCalls = 0 /\ r.connectCalls = 0
          /\ r.connection = "none"

\* C5 witness: a sync for an address that has no row in the users table has
\* failed with "User not found".
C5_Witness ==
  \E s \in Syncs :
    /\ sync[s].pc = "failed" /\ sync[s].error = UserNotFound
    /\ sync[s].emailAddress \in Addresses
    /\ ~ \E u \in User : u.email = sync[s].emailAddress

\* C6: refreshAccessToken for an account without a refresh token fails with
\* "No refresh token available; re-authentication required"; it sets no
\* credentials on the OAuth2 client, calls neither the provider nor
\* user.update, and the failing step leaves the users table and the client as
\* they were.
C6_NoRefreshTokenReauth ==
  /\ [] \A s \in Syncs :
          LET r == sync[s]
          IN (r.user # NoUser /\ r.user.refreshToken = NoToken)
             => /\ r.pc = "failed"
                /\ r.error = FetchUserEmailsCatch(ReauthRequired)
                /\ r.setCredentialsCalls = 0 /\ r.getAccessTokenCalls = 0
                /\ r.userUpdateCalls = 0 /\ r.connectCalls = 0
  /\ [][ \A s \in Syncs :
           (sync[s].pc = "findOne" /\ sync'[s].user # NoUser
              /\ sync'[s].user.refreshToken = NoToken)
           => (User' = User /\ oauth2Client' = oauth2Client) ]_vars

\* C6 witness: a sync of an account without a refresh token has failed in
\* refreshAccessToken while the account's access token is stored as before.
C6_Witness ==
  \E s \in Syncs :
    /\ sync[s].pc = "failed"
    /\ sync[s].error = FetchUserEmailsCatch(ReauthRequired)
    /\ \E u \in User : /\ u.id = sync[s].user.id /\ u.refreshToken = NoToken
                       /\ u.accessToken = sync[s].user.accessToken

\* C7: when getAccessToken answers with the access token the account record
\* given to refreshAccessToken holds, refreshAccessToken calls no user.update
\* and returns with the users table unchanged.
C7_SameTokenNotPersisted ==
  [][ \A s \in Syncs :
        LET r == sync[s]
            q == sync'[s]
        IN (r.pc = "getAccessToken" /\ q # r /\ q.pc # "failed"
              /\ q.freshAccessToken = r.user.accessToken)
           => /\ q.pc = "connect"
              /\ q.userUpdateCalls = 0
              /\ User' = User ]_vars

\* C7 witness: refreshAccessToken returned the token at1 that is stored for
\* the account, without a call of user.update.
C7_Witness ==
  \E s \in Syncs :
    /\ sync[s].pc = "connect" /\ sync[s].userUpdateCalls = 0
    /\ sync[s].freshAccessToken = "at1"
    /\ \E u \in User : u.id = sync[s].user.id /\ u.accessToken = "at1"

\* C8: when getAccessToken answers with an access token that differs from the
\* one of the account record, then in the step in which refreshAccessToken
\* returns it the users table holds it for that account: the return follows
\* user.update, and no connection to the mail server was asked for before.
C8_NewTokenPersistedBeforeReturn ==
  [][ \A s \in Syncs :
        LET r == sync[s]
            q == sync'[s]
        IN (r.pc \in {"getAccessToken", "userUpdate"} /\ q.pc = "connect"
              /\ q.freshAccessToken # r.user.accessToken)
           => /\ r.pc = "userUpdate"
              /\ r.connectCalls = 0 /\ r.connection = "none"
              /\ \E u \in User' : /\ u.id = r.user.id
                                  /\ u.accessToken = q.freshAccessToken ]_vars

\* C8 witness: the provider answered at2 for an account that held at1;
\* refreshAccessToken has returned after one user.update and the users table
\* holds at2.
C8_Witness ==
  \E s \in Syncs :
    /\ sync[s].pc = "connect" /\ sync[s].userUpdateCalls = 1
    /\ sync[s].freshAccessToken = "at2"
    /\ \E u \in User : u.id = sync[s].user.id /\ u.accessToken = "at2"

C10_MessageFailureNotFatal ==
  \A s \in Syncs :
    LET r == sync[s]
    IN (r.pc # "process" /\ \E i \in DOMAIN r.messages : r.messages[i].fault # "none")
       => /\ r.pc \in AfterFetch
          /\ r.error = <<>>
          /\ \A i \in DOMAIN r.messages :
               r.messages[i].fault = "none"
               => \E j \in DOMAIN r.emails :
                    /\ r.emails[j].messageId = r.messages[i].uid
                    /\ r.emails[j].body = "text"

\* C10 witness: of two fetched messages one failed in its processing; the
\* sync is done and returned the other.
C10_Witness ==
  \E s \in Syncs :
    /\ sync[s].pc = "done"
    /\ Len(sync[s].messages) = 2
    /\ CountFault(sync[s].messages, "process") = 1
    /\ CountFault(sync[s].messages, "none") = 1
    /\ Len(sync[s].result) = 1 /\ sync[s].result[1].body = "text"

\* C11: whatever the mailbox holds and whatever limit fetchEmails is called
\* with (50 without one), it returns at most limit records, each with a
\* plain-text body of at most 5000 and an HTML body of at most 10000
\* characters.
C11_LimitAndBodiesBounded ==
  reader.pc = "done" =>
    /\ Len(reader.emails) <= reader.limit
    /\ \A k \in DOMAIN reader.emails :
         /\ reader.emails[k].body <= MaxBody
         /\ reader.emails[k].bodyHtml <= MaxBodyHtml

\* A mailbox of more messages than the limit, of which limit records are
\* returned, one of them cut at both bounds.
C11_Witness ==
  /\ reader.pc = "done"
  /\ reader.found > reader.limit
  /\ reader.limit > 0
  /\ Len(reader.emails) = reader.limit
  /\ \E k \in DOMAIN reader.messages :
       /\ reader.messages[k].fault = "none"
       /\ reader.messages[k].text > MaxBody
       /\ reader.messages[k].html.length > MaxBodyHtml
       /\ \E n \in DOMAIN reader.emails :
            /\ reader.emails[n].messageId = reader.messages[k].uid
            /\ reader.emails[n].body = MaxBody
            /\ reader.emails[n].bodyHtml = MaxBodyHtml

\* C12: a connection fetchEmails opened is closed when the call ends, on
\* its return and on a failure of any step after the connection was
\* established: no call has ended with its connection open, and a
\* connection that is open is ended later.
C12_ConnectionClosed ==
  /\ [](\A s \in Syncs :
         sync[s].pc \in AfterFetch \cup {"failed"} => sync[s].connection # "open")
  /\ \A s \in Syncs :
       (sync[s].connection = "open") ~> (sync[s].connection = "ended")

\* A call that failed after its connection was established, the connection
\* ended.
C12_Witness ==
  /\ sync[1].pc = "failed"
  /\ sync[1].connectCalls = 1
  /\ sync[1].cause \in ImapErrors
  /\ sync[1].connection = "ended"

\* C13: a sync goes Start -> TokenValid -> MessagesFetched -> Merged -> Done
\* in this order: the mailbox is read only after the refresh succeeded and
\* with the token the refresh returned, the merge runs only after the read
\* succeeded, a failure of lookup, refresh or read ends the sync Failed
\* with nothing merged, and a failure of the merge still ends it Done.
C13_PhaseOrder ==
  /\ [][\A s \in Syncs : Phase(sync'[s]) \in Successors(Phase(sync[s]))]_vars
  /\ [](\A s \in Syncs :
         LET r == sync[s]
         IN /\ Phase(r) = "TokenValid" =>
                 /\ r.refreshCalls = 1 /\ r.getAccessTokenCalls = 1
                 /\ r.freshAccessToken # NoToken
                 /\ r.freshAccessToken = r.user.accessToken
                 /\ r.connectCalls = 1
            /\ Phase(r) = "Start" => r.connectCalls = 0 /\ r.i = 0
            /\ Phase(r) = "MessagesFetched" =>
                 /\ r.connection = "ended" /\ r.connectCalls = 1
                 /\ r.emails = Fetched(r)
            /\ Phase(r) = "Failed" =>
                 r.i = 0 /\ r.savedCount = 0 /\ r.skippedCount = 0 /\ ~r.saveError
            /\ r.saveError => Phase(r) = "Done" /\ r.result = r.emails)

\* A sync that went through every phase: token refreshed and persisted,
\* two messages read, both merged.
C13_Witness ==
  /\ Phase(sync[1]) = "Done"
  /\ sync[1].userUpdateCalls = 1
  /\ Len(sync[1].emails) = 2
  /\ sync[1].savedCount = 2
  /\ ~sync[1].saveError

\* C14: when two syncs race to insert the same (owner, message id), the
\* insert that loses is ignored and is not an error: the sync counts the
\* record as skipped and goes on with its remaining records, a merge is
\* only ever cut short by a failure of the database, and a sync whose merge
\* was not cut short returns its whole fetched list with every record of it
\* stored under its key exactly once.
C14_LostRaceIgnored ==
  /\ [][\A s \in Syncs :
          LET r == sync[s]
              q == sync'[s]
          IN (/\ r.pc = "create"
              /\ RowsOf(Email, r.user.id, r.emails[r.i].messageId) # {}
              /\ q # r)
             => /\ Email' = Email
                /\ q.error = <<>>
                /\ IF q.saveError
                     THEN q.cause \in DatabaseErrors
                     ELSE /\ q.skippedCount = r.skippedCount + 1
                          /\ q.savedCount = r.savedCount
                          /\ IF r.i < Len(r.emails)
                               THEN q.pc = "findOrCreate" /\ q.i = r.i + 1
                               ELSE q.pc = "done"]_vars
  /\ [](\A s \in Syncs :
         LET r == sync[s]
         IN (r.pc = "done" /\ ~r.saveError) =>
              /\ r.error = <<>>
              /\ r.result = Fetched(r)
              /\ r.savedCount + r.skippedCount = Len(r.result)
              /\ \A k \in DOMAIN r.result :
                   Cardinality(RowsOf(Email, r.user.id, r.result[k].messageId)) = 1)

\* Two syncs of one account: the second has stored the first record while
\* the insert of the first sync for it is under way, and the first sync has
\* one more record to merge.
C14_Witness ==
  /\ sync[1].pc = "create"
  /\ sync[1].i = 1
  /\ Len(sync[1].emails) = 2
  /\ sync[2].user.id = sync[1].user.id
  /\ sync[2].pc \in {"findOrCreate", "create", "done"}
  /\ sync[2].savedCount >= 1
  /\ sync[2].emails[1].messageId = sync[1].emails[1].messageId
  /\ RowsOf(Email, sync[1].user.id, sync[1].emails[1].messageId) # {}

\* C15: under every interleaving of syncs for different accounts and of
\* OAuth callbacks, the token a sync for account A obtains and connects
\* with was obtained from A's own tokens, never from the credentials
\* another request set on the shared OAuth2 client while the sync was
\* suspended; the tokens stored for an account are its own as well.
C15_OwnTokenOnly ==
  /\ [][\A s \in Syncs :
          LET r == sync[s]
              q == sync'[s]
          IN (r.pc = "getAccessToken" /\ q.freshAccessToken # NoToken)
             => q.freshAccessToken \in OwnedAccessTokens(r.emailAddress)]_vars
  /\ [](\A s \in Syncs :
         LET r == sync[s]
         IN /\ r.user # NoUser => r.user.email = r.emailAddress
            /\ r.freshAccessToken # NoToken =>
                 r.freshAccessToken \in OwnedAccessTokens(r.emailAddress))
  /\ [](\A u \in User :
         /\ u.accessToken \in OwnedAccessTokens(u.email)
         /\ u.refreshToken \in {OwnedRefreshToken(u.email), NoToken})

\* A sync of one account is suspended in getAccessToken while the shared
\* client holds the credentials of the other account, and the other sync
\* has connected with a token of its own account.
C15_Witness ==
  /\ sync[1].pc = "getAccessToken"
  /\ OwnerOf(oauth2Client.refresh_token) \notin {"", sync[1].emailAddress}
  /\ sync[2].pc = "connect"
  /\ sync[2].emailAddress # sync[1].emailAddress
  /\ sync[2].freshAccessToken \in OwnedAccessTokens(sync[2].emailAddress)
  /\ sync[2].freshAccessToken # oauth2Client.access_token

\* C20: after any sequence of OAuth callbacks and syncs the accounts table
\* holds at most one account per email; a repeated authorization of an
\* address updates the tokens of its account in place, and no account is
\* ever deleted.
C20_OneAccountPerEmail ==
  /\ [](\A u, v \in User : u.email = v.email => u = v)
  /\ [][\A u \in User : \E v \in User' : v.id = u.id /\ v.email = u.email]_vars
  /\ [][\A c \in Callbacks :
          (/\ callback[c].pc = "upsert" /\ callback'[c].pc = "done"
           /\ \E u \in User : u.email = callback[c].tokens.email)
          => /\ Cardinality(User') = Cardinality(User)
             /\ \E v \in User' :
                  /\ v.email = callback[c].tokens.email
                  /\ v.accessToken = callback[c].tokens.access_token]_vars

\* Two callbacks for one address are done, the second with other tokens,
\* and the table holds the one account of the address with these tokens.
C20_Witness ==
  /\ callback[1].pc = "done" /\ callback[2].pc = "done"
  /\ callback[1].tokens.email = callback[2].tokens.email
  /\ callback[1].tokens.access_token # callback[2].tokens.access_token
  /\ Cardinality(User) = 1
  /\ \E u \in User : u.accessToken = callback[2].tokens.access_token

C18_OneProviderAttempt ==
  /\ [](\A s \in Syncs :
         LET r == sync[s]
         IN /\ r.refreshCalls <= 1 /\ r.getAccessTokenCalls <= 1
            /\ r.getAccessTokenCalls <= r.refreshCalls
            /\ r.refreshCalls = (IF r.user = NoUser THEN 0 ELSE 1)
            /\ (r.user # NoUser /\ ~NoRefreshToken(r.user)) => r.getAccessTokenCalls = 1
            /\ r.pc \in AfterFetch \cup {"connect", "openBox", "search", "process"} =>
                 r.refreshCalls = 1 /\ r.getAccessTokenCalls = 1
            /\ (r.pc = "failed" /\ r.cause \in ProviderErrors) => r.getAccessTokenCalls = 1)
  /\ [][\A s \in Syncs :
          sync[s].pc \in {"failed", "done"} => sync'[s] = sync[s]]_vars

\* A sync whose one request to the provider was rejected, and which failed.
C18_Witness ==
  /\ sync[1].pc = "failed"
  /\ sync[1].cause \in ProviderErrors
  /\ sync[1].refreshCalls = 1
  /\ sync[1].getAccessTokenCalls = 1
  /\ sync[1].connectCalls = 0

\* C19: when the provider rejects the request for a token,
\* refreshAccessToken fails with "Failed to refresh access token: "
\* followed by the message of the provider, and the access token and the
\* refresh token stored for the account are not changed.
C19_RefreshFailureKeepsTokens ==
  /\ [][\A s \in Syncs :
          LET r == sync[s]
              q == sync'[s]
          IN (r.pc = "getAccessToken" /\ q.pc = "failed" /\ q.cause \in ProviderErrors)
             => /\ q.error = FetchUserEmailsCatch(<<"Failed to refresh access token: ">> \o q.cause)
                /\ User' = User]_vars
  /\ [](\A s \in Syncs :
         LET r == sync[s]
         IN (r.pc = "failed" /\ r.cause \in ProviderErrors) =>
              /\ Includes(r.error, <<"Failed to refresh access token: ">> \o r.cause)
              /\ r.userUpdateCalls = 0
              /\ \E u \in User :
                   /\ u.id = r.user.id
                   /\ u.accessToken = r.user.accessToken
                   /\ u.refreshToken = r.user.refreshToken)

\* A sync failed on the provider's invalid_grant, its message in the error.
C19_Witness ==
  /\ sync[1].pc = "failed"
  /\ sync[1].cause = <<"invalid_grant">>
  /\ sync[1].error = <<"Failed to fetch emails: ", "Failed to refresh access token: ", "invalid_grant">>
  /\ \E u \in User : u.id = sync[1].user.id /\ u.accessToken = "at1" /\ u.refreshToken = "rt1"

\* C21: generateAuthUrl returns the URL the OAuth2 client produced, asked
\* for with access_type "offline", prompt "consent" and the scope list
\* exactly ["https://mail.google.com/", "profile", "email"].
C21_ScopesProfileEmail ==
  \A c \in Callbacks :
    callback[c].url # <<>> =>
      callback[c].url =
        ClientGenerateAuthUrl(
          [access_type |-> "offline", prompt |-> "consent",
           scope |-> <<"https://mail.google.com/", "profile", "email">>])

\* What generateAuthUrl does ask for: offline access, the consent prompt and
\* the four scopes of the code.
C21_ScopesOfTheCode ==
  \A c \in Callbacks :
    callback[c].url # <<>> =>
      /\ callback[c].url[2].access_type = "offline"
      /\ callback[c].url[2].prompt = "consent"
      /\ callback[c].url[2].scope =
           <<"https://mail.google.com/", "openid",
             "https://www.googleapis.com/auth/userinfo.email",
             "https://www.googleapis.com/auth/userinfo.profile">>

\* A consent URL has been generated.
C21_Witness ==
  /\ callback[1].pc = "consent"
  /\ callback[1].url = ClientGenerateAuthUrl(AuthUrlOptions)

\* C22: handleOAuthCallback with a missing authorization code fails with
\* "Missing authorization code", without a call of the identity provider
\* and without creating or changing an account or the shared client.
C22_MissingCodeNoEffect ==
  /\ [][\A c \in Callbacks :
          (callback[c].pc \in {"idle", "consent"} /\ callback'[c].pc = "failed")
          => /\ callback'[c].error = MissingCode
             /\ callback'[c].getTokenCalls = 0
             /\ User' = User
             /\ oauth2Client' = oauth2Client]_vars
  /\ [](\A c \in Callbacks :
         /\ callback[c].code = "" => callback[c].pc \in {"idle", "consent", "failed"}
         /\ callback[c].getTokenCalls > 0 => callback[c].code # ""
         /\ callback[c].error = MissingCode =>
              callback[c].pc = "failed" /\ callback[c].getTokenCalls = 0)

\* A callback without code has failed while the other callback has stored
\* an account, which is as that callback wrote it.
C22_Witness ==
  /\ callback[1].pc = "failed"
  /\ callback[1].error = MissingCode
  /\ callback[2].pc = "done"
  /\ \E u \in User : u.accessToken = callback[2].tokens.access_token

\* C23: for every page >= 1, limit in 1..100 and number of stored
\* messages, getStoredEmails returns at most limit emails, totalCount is
\* the number of matching records, totalPages is ceil(totalCount / limit),
\* hasNextPage holds exactly when currentPage < totalPages and hasPrevPage
\* exactly when currentPage > 1.
C23_Pagination ==
  storedCall.pc = "done" =>
    LET q == storedCall
        p == q.pagination
    IN /\ q.page >= 1 /\ q.limit \in 1..MaxPageLimit
       /\ Len(q.emails) <= q.limit
       /\ p.currentPage = q.page /\ p.limit = q.limit
       /\ p.totalCount = Cardinality({ row \in Email :
             /\ row.userId = q.user.id
             /\ Trim(q.search) # "" => Like(row.from, q.search) \/ Like(row.subject, q.search) })
       /\ p.totalPages * q.limit >= p.totalCount
       /\ (p.totalPages - 1) * q.limit < p.totalCount \/ (p.totalCount = 0 /\ p.totalPages = 0)
       /\ p.hasNextPage <=> (p.currentPage < p.totalPages)
       /\ p.hasPrevPage <=> (p.currentPage > 1)

\* The second of two pages of one record each.
C23_Witness ==
  /\ storedCall.pc = "done"
  /\ storedCall.limit = 1
  /\ storedCall.page = 2
  /\ storedCall.pagination.totalCount = 2
  /\ storedCall.pagination.totalPages = 2
  /\ Len(storedCall.emails) = 1
  /\ storedCall.pagination.hasPrevPage
  /\ ~storedCall.pagination.hasNextPage

\* C27: getStoredEmails for an address returns only records of the account
\* of that address, for every search (empty, blank or not): a record of
\* another account is never in the result and never counted in totalCount,
\* also when its sender or subject matches the search.
C27_OwnRecordsOnly ==
  storedCall.pc = "done" =>
    LET q == storedCall
        own == { row \in Email : row.userId = q.user.id }
    IN /\ q.user.email = q.emailAddress
       /\ \A k \in DOMAIN q.emails : q.emails[k] \in own
       /\ q.pagination.totalCount <= Cardinality(own)
       /\ q.pagination.totalCount =
            Cardinality({ row \in own : WhereClause(row, q.user.id, q.search) })

\* A search that a record of the other account matches, and the result holds
\* the one matching record of the account asked for.
C27_Witness ==
  /\ storedCall.pc = "done"
  /\ storedCall.search = "alice"
  /\ \E row \in Email : row.userId # storedCall.user.id /\ Like(row.from, "alice")
  /\ storedCall.pagination.totalCount = 1
  /\ Len(storedCall.emails) = 1
  /\ storedCall.emails[1].userId = storedCall.user.id

\* The index of a character in the alphabet of base64, from 0.
C24_Index(c) == (CHOOSE k \in DOMAIN Base64Alphabet : Base64Alphabet[k] = c) - 1

\* The bytes that a base64 text stands for.
RECURSIVE C24_Decode(_)
C24_Decode(text) ==
  LET s1 == C24_Index(text[1])
      s2 == C24_Index(text[2])
      s3 == IF text[3] = "=" THEN 0 ELSE C24_Index(text[3])
      s4 == IF text[4] = "=" THEN 0 ELSE C24_Index(text[4])
      b1 == s1 * 4 + (s2 \div 16)
      b2 == (s2 % 16) * 16 + (s3 \div 4)
      b3 == (s3 % 4) * 64 + s4
  IN IF text = <<>> THEN <<>>
     ELSE IF text[3] = "=" THEN <<b1>>
     ELSE IF text[4] = "=" THEN <<b1, b2>>
     ELSE <<b1, b2, b3>> \o C24_Decode(SubSeq(text, 5, Len(text)))

\* C24: the XOAUTH2 string built for a mailbox connection is, before it is
\* base64 encoded, exactly "user=" + address + 0x01 + "auth=Bearer " +
\* access token + 0x01 + 0x01.
C24_XOAuth2String ==
  reader.pc = "connect" =>
    LET emailAddress == reader.user[1]
        accessToken == reader.user[2]
        expected == <<117, 115, 101, 114, 61>> \o emailAddress \o <<1>>
                      \o <<97, 117, 116, 104, 61, 66, 101, 97, 114, 101, 114, 32>>
                      \o accessToken \o <<1, 1>>
    IN /\ AuthString(emailAddress, accessToken) = expected
       /\ Len(reader.xoauth2) % 4 = 0
       /\ C24_Decode(reader.xoauth2) = expected

\* The string of the address "a@" and the token ".a": 24 bytes, 32
\* characters of base64 without padding.
C24_Witness ==
  /\ reader.pc = "connect"
  /\ reader.user = << <<97, 64>>, <<46, 97>> >>
  /\ Len(reader.xoauth2) = 32
  /\ SubSeq(reader.xoauth2, 1, 8) = <<"d", "X", "N", "l", "c", "j", "1", "h">>

\* C25: if the token refresh or the mailbox read of a sync fails, the sync
\* ends in failure, the merge is never invoked, and no step of that sync has
\* changed the emails table: the cached records are as they were before it.
C25_FailedSyncWritesNothing ==
  /\ [](\A s \in Syncs :
         LET r == sync[s]
         IN (r.cause # <<>> /\ ~r.saveError) =>
              /\ r.pc = "failed"
              /\ r.i = 0 /\ r.savedCount = 0 /\ r.skippedCount = 0
              /\ r.result = <<>>)
  /\ [][\A s \in Syncs :
          (sync'[s] # sync[s] /\ sync'[s].pc \notin AfterFetch) => Email' = Email]_vars

\* A sync whose mailbox read failed while the table held the rows another
\* sync had stored, and one whose refresh was refused by the provider.
C25_Witness ==
  /\ Email # {}
  /\ \E s \in Syncs :
       /\ sync[s].pc = "failed"
       /\ sync[s].cause \in ImapErrors \cup ProviderErrors
       /\ sync[s].i = 0
  /\ \E s \in Syncs : sync[s].pc = "done" /\ sync[s].savedCount >= 1

\* C26: when findOrCreate fails on the k-th record of a merge, the step
\* removes no row (the records inserted before stay, nothing is rolled
\* back), the k-th and the later records are not counted and the merge ends
\* there, so that they are never inserted by it, and fetchUserEmails still
\* returns every fetched record.
C26_MergeCutAtFailure ==
  /\ [][\A s \in Syncs :
          LET r == sync[s]
              q == sync'[s]
          IN /\ (q.saveError /\ ~r.saveError) =>
                  /\ r.pc \in {"findOrCreate", "create"}
                  /\ Email' = Email
                  /\ q.i = r.i
                  /\ q.savedCount = r.savedCount /\ q.skippedCount = r.skippedCount
                  /\ q.pc = "done" /\ q.result = r.emails
             /\ r.saveError => q = r]_vars
  /\ [](\A s \in Syncs :
         LET r == sync[s]
         IN r.saveError =>
              /\ r.i \in 1..Len(r.emails)
              /\ r.savedCount + r.skippedCount = r.i - 1
              /\ r.result = r.emails
              /\ \A j \in 1..(r.i - 1) : RowsOf(Email, r.user.id, r.emails[j].messageId) # {})

\* A merge of two records that failed on its first: nothing is counted, the
\* second record has no row, both are returned.
C26_Witness ==
  \E s \in Syncs :
    /\ sync[s].saveError /\ sync[s].pc = "done"
    /\ sync[s].i = 1 /\ Len(sync[s].result) = 2
    /\ sync[s].savedCount = 0 /\ sync[s].skippedCount = 0
    /\ RowsOf(Email, sync[s].user.id, sync[s].result[2].messageId) = {}

\* C28: when the provider has returned a new access token and persisting it
\* on the account fails, the refresh fails with the token-refresh error, the
\* mailbox is not read, and the sync ends in failure and stays there.
C28_PersistFailureFailsSync ==
  [][\A s \in Syncs :
       LET r == sync[s]
           q == sync'[s]
       IN /\ (r.pc = "userUpdate" /\ q # r /\ q.user.accessToken # r.freshAccessToken) =>
               /\ r.freshAccessToken # NoToken
               /\ q.pc = "failed"
               /\ q.cause \in DatabaseErrors
               /\ q.error = <<"Failed to fetch emails: ", "Failed to refresh access token: ">>
                               \o q.cause
               /\ q.connectCalls = 0 /\ q.connection = "none"
               /\ q.messages = <<>> /\ q.i = 0
               /\ User' = User /\ Email' = Email
          /\ r.pc = "failed" => q = r]_vars

\* The provider gave a token other than the stored one, and the update of
\* the account's row was rejected.
C28_Witness ==
  \E s \in Syncs :
    /\ sync[s].pc = "failed"
    /\ sync[s].userUpdateCalls = 1
    /\ sync[s].freshAccessToken # NoToken
    /\ sync[s].freshAccessToken # sync[s].user.accessToken
    /\ sync[s].cause \in DatabaseErrors
    /\ sync[s].connectCalls = 0

\* C29: the fetch endpoint answers 404 only when the lookup found no
\* account for the address and 401 only when the account has no refresh
\* token: a failure of the provider or of the mail server, whatever its
\* message, is never answered with 404 or 401.
C29_StatusOnlyByCause ==
  \A s \in Syncs :
    LET r == sync[s]
    IN /\ response[s].status = 404 => r.pc = "failed" /\ r.user = NoUser
       /\ response[s].status = 401 =>
            r.pc = "failed" /\ r.user # NoUser /\ r.user.refreshToken = NoToken
       /\ (r.getAccessTokenCalls >= 1 \/ r.connectCalls >= 1) =>
            response[s].status \notin {404, 401}

\* C29, as the code has it: the status of a failed sync is 404 when the
\* message of its error includes "User not found", else 401 when it
\* includes "re-authentication", else 500, whoever raised the error.
C29_StatusByMessage ==
  \A s \in Syncs :
    (response[s] # NoResponse /\ sync[s].pc = "failed") =>
      response[s].status =
        IF \E k \in DOMAIN sync[s].error : sync[s].error[k] = "User not found" THEN 404
        ELSE IF \E k \in DOMAIN sync[s].error : sync[s].error[k] = "re-authentication" THEN 401
        ELSE 500

\* The mail server refused the login of an account that exists and has its
\* tokens, and the request is answered 404.
C29_Witness ==
  /\ sync[1].pc = "failed"
  /\ sync[1].user # NoUser
  /\ sync[1].user.refreshToken # NoToken
  /\ sync[1].connectCalls = 1
  /\ sync[1].cause \in MarkedErrors
  /\ response[1].status = 404

\* C30: once every stored-email request that was in flight is answered, the
\* list, the pagination and the page displayed are those of the request
\* issued last: the answer of an earlier, slower request never overwrites
\* that of a later one.
C30_LatestRequestShown ==
  (/\ dashboard.issued > 0
   /\ dashboard.inflight = {}
   /\ dashboard.rejected = {})
  => /\ dashboard.shown.seq = dashboard.issued
     /\ dashboard.currentPage = dashboard.shown.page

\* C30, as the code has it: every answer that arrives is displayed, with
\* its page as the current page, whether or not a request was issued after
\* the one it answers.
C30_LastAnswerShown ==
  [][\A q \in dashboard.inflight :
       (/\ q.kind = "stored"
        /\ dashboard' # NoDashboard
        /\ q \notin dashboard'.inflight
        /\ q.seq \notin dashboard'.rejected)
       => /\ dashboard'.shown = q
          /\ dashboard'.currentPage = q.page
          /\ ~dashboard'.loading]_vars

\* Every request is answered, none failed, and the page displayed is the
\* one of a page button pressed before the search of the timer was sent.
C30_Witness ==
  /\ dashboard.inflight = {}
  /\ dashboard.rejected = {}
  /\ dashboard.issued = 3
  /\ dashboard.shown.seq = 2
  /\ dashboard.shown.origin = "page"
  /\ dashboard.currentPage = 2
  /\ dashboard.searchQuery = "a"
====
